---- MODULE Spec2Model ----
(***************************************************************************)
(* A model of the HTCondor Chirp client of src/htchirp/htchirp.py.         *)
(*                                                                         *)
(* Byte strings are sequences of one-character strings.  The source is     *)
(* Python 2 code (a str received from the socket is compared with "\n",    *)
(* a str is sent on the socket): the model follows those semantics.        *)
(*                                                                         *)
(* Seven specifications share the variables:                               *)
(*   Spec       the client: construction, then public operations;         *)
(*   SpecPaths  the client with the operations on listings, links, modes,  *)
(*              owners, lengths and times;                                 *)
(*   SpecQuote  the pure function quote on bounded strings;                *)
(*   SpecResp   the response reader on bounded response lines;             *)
(*   SpecLine   the response reader on the bytes a socket delivers;        *)
(*   SpecStat   stat and statfs on payloads cut into lines and chunks;     *)
(*   SpecConc   two threads calling methods of one client.                 *)
(***************************************************************************)
EXTENDS Integers, Sequences, FiniteSets, TLC

VARIABLES
    pc,             \* position of the calling thread
    auth,           \* __init__'s parameter auth, while __init__ runs
    idx,            \* __init__'s loop position in auth
    attempts,       \* methods __init__ has passed to __connect so far
    cookie,         \* self.__cookie
    authentication, \* self.__authentication
    sock,           \* self.__socket: absent, created, connected, closed
    sockId,         \* number of socket objects created so far
    opened,         \* the socket objects created and not closed, by number
    rx,             \* bytes received on the socket and not yet read
    wire,           \* commands the current call handed to send on its socket
    call,           \* the public operation in progress
    result,         \* how the last call ended
    local_file,     \* bytes of the local file a file transfer names
    written,        \* chunks putfile has written to the socket's file object
    fin,            \* SpecQuote, SpecResp: the input of the function
    fout,           \* SpecQuote, SpecResp: its output
    fpc             \* SpecQuote, SpecResp: before or after the call

vars == <<pc, auth, idx, attempts, cookie, authentication, sock, sockId,
          opened, rx, wire, call, result, local_file, written, fin, fout, fpc>>

clientVars == <<pc, auth, idx, attempts, cookie, authentication, sock,
                sockId, opened, rx, wire, call, result, local_file, written>>

fileVars == <<local_file, written>>

funVars == <<fin, fout, fpc>>

(***************************************************************************)
(* Bounds of the model.                                                    *)
(***************************************************************************)
MaxLen == 4        \* longest string given to quote
MaxAuth == 3       \* longest list of authentication methods
MaxSockets == 3    \* sockets one client creates
MaxChunk == 2      \* most bytes the transport hands over per recv
MaxCode == 130     \* largest magnitude of a decimal response code
MaxRespLen == 3    \* longest free-form response line, terminator excluded

(***************************************************************************)
(* Characters.                                                             *)
(***************************************************************************)
BS == "\\"
SP == " "
NL == "\n"
TAB == "\t"
CR == "\r"

\* bytes.rstrip() and int() strip these (of the characters the model uses)
Whitespace == {SP, TAB, NL, CR}

Digits == {"0", "1", "2", "3", "4", "5", "6", "7", "8", "9"}

DigitVal ==
    ("0" :> 0) @@ ("1" :> 1) @@ ("2" :> 2) @@ ("3" :> 3) @@ ("4" :> 4) @@
    ("5" :> 5) @@ ("6" :> 6) @@ ("7" :> 7) @@ ("8" :> 8) @@ ("9" :> 9)

DigitChar == [d \in 0..9 |-> CHOOSE c \in Digits : DigitVal[c] = d]

Range(s) == {s[i] : i \in 1..Len(s)}

RECURSIVE SeqsUpTo(_, _)
SeqsUpTo(S, n) ==
    IF n = 0 THEN {<<>>}
    ELSE LET shorter == SeqsUpTo(S, n - 1)
         IN  shorter \cup {Append(s, c) : s \in shorter, c \in S}

(***************************************************************************)
(* quote, lines 13-28.                                                     *)
(***************************************************************************)
escape_chars_no_cr == {BS, SP, NL, TAB}

escape_chars == {BS, SP, NL, TAB, CR}

\* escape.sub(replace, chirp_string): each match, left to right, is
\* replaced by a backslash and the match; everything else is copied.
RECURSIVE quote(_)
quote(chirp_string) ==
    IF chirp_string = <<>> THEN <<>>
    ELSE LET c == Head(chirp_string)
         IN  (IF c \in escape_chars THEN <<BS, c>> ELSE <<c>>)
                 \o quote(Tail(chirp_string))

(***************************************************************************)
(* Python's str.rstrip(), int(str), "{0}".format(int).                     *)
(***************************************************************************)
RECURSIVE rstrip(_)
rstrip(s) ==
    IF s # <<>> /\ s[Len(s)] \in Whitespace
    THEN rstrip(SubSeq(s, 1, Len(s) - 1))
    ELSE s

RECURSIVE lstrip(_)
lstrip(s) ==
    IF s # <<>> /\ Head(s) \in Whitespace THEN lstrip(Tail(s)) ELSE s

RECURSIVE DigitsValue(_)
DigitsValue(s) ==
    IF s = <<>> THEN 0
    ELSE 10 * DigitsValue(SubSeq(s, 1, Len(s) - 1)) + DigitVal[s[Len(s)]]

\* int(s): surrounding whitespace, an optional sign, then decimal digits;
\* anything else is a ValueError (ok = FALSE).
IntOfDigits(sign, body) ==
    IF body # <<>> /\ Range(body) \subseteq Digits
    THEN [ok |-> TRUE, val |-> sign * DigitsValue(body)]
    ELSE [ok |-> FALSE, val |-> 0]

\* Python 2 skips whitespace once more after the sign: int("- 1") is -1
IntOfStripped(t) ==
    IF t # <<>> /\ Head(t) = "-" THEN IntOfDigits(-1, lstrip(Tail(t)))
    ELSE IF t # <<>> /\ Head(t) = "+" THEN IntOfDigits(1, lstrip(Tail(t)))
    ELSE IntOfDigits(1, t)

PyInt(s) == IntOfStripped(rstrip(lstrip(s)))

RECURSIVE NatChars(_)
NatChars(n) ==
    IF n < 10 THEN <<DigitChar[n]>>
    ELSE Append(NatChars(n \div 10), DigitChar[n % 10])

\* the decimal text of an integer
Decimal(n) == IF n < 0 THEN <<"-">> \o NatChars(0 - n) ELSE NatChars(n)

(***************************************************************************)
(* Python's str.split(sep), str.split(), [int(x) for x in ...] and         *)
(* dict(zip(keys, values)).                                                *)
(***************************************************************************)
\* s.split(sep): the pieces between the separators, empty ones included
RECURSIVE split_on(_, _, _, _)
split_on(s, sep, cur, acc) ==
    IF s = <<>> THEN Append(acc, cur)
    ELSE IF Head(s) = sep THEN split_on(Tail(s), sep, <<>>, Append(acc, cur))
    ELSE split_on(Tail(s), sep, Append(cur, Head(s)), acc)

\* s.split(): the pieces between runs of whitespace, none of them empty
RECURSIVE split_ws(_, _, _)
split_ws(s, cur, acc) ==
    IF s = <<>> THEN (IF cur = <<>> THEN acc ELSE Append(acc, cur))
    ELSE IF Head(s) \in Whitespace
    THEN split_ws(Tail(s), <<>>, IF cur = <<>> THEN acc ELSE Append(acc, cur))
    ELSE split_ws(Tail(s), Append(cur, Head(s)), acc)

split(s) == split_ws(s, <<>>, <<>>)

\* [int(x) for x in tokens]: ok = FALSE when one of them is a ValueError
ints(tokens) ==
    [ok |-> \A i \in 1..Len(tokens) : PyInt(tokens[i]).ok,
     val |-> [i \in 1..Len(tokens) |-> PyInt(tokens[i]).val]]

\* dict(zip(keys, values)) on the first n pairs: a later pair replaces an
\* earlier one with the same key
dict_of(keys, values, n) ==
    [key \in {keys[i] : i \in 1..n} |->
        values[CHOOSE i \in 1..n :
                   keys[i] = key /\ \A j \in (i + 1)..n : keys[j] # key]]

dict_zip(keys, values) ==
    dict_of(keys, values, IF Len(keys) < Len(values) THEN Len(keys)
                          ELSE Len(values))

(***************************************************************************)
(* How a call ends: it returns value, raises error, or never comes back.   *)
(***************************************************************************)
Returned(v) == [kind |-> "return", error |-> "", code |-> 0, value |-> v]

Raised(e) == [kind |-> "raise", error |-> e, code |-> 0, value |-> <<>>]

RaisedCode(e, c) == [kind |-> "raise", error |-> e, code |-> c, value |-> <<>>]

Hang == [kind |-> "hang", error |-> "", code |-> 0, value |-> <<>>]

NoResult == [kind |-> "none", error |-> "", code |-> 0, value |-> <<>>]

(***************************************************************************)
(* __check_response, lines 267-299.                                        *)
(***************************************************************************)
CHIRP_LINE_MAX == 1024

chirp_errors ==
    (-1 :> "NotAuthenticated") @@ (-2 :> "NotAuthorized") @@
    (-3 :> "DoesntExist") @@ (-4 :> "AlreadyExists") @@ (-5 :> "TooBig") @@
    (-6 :> "NoSpace") @@ (-7 :> "NoMemory") @@ (-8 :> "InvalidRequest") @@
    (-9 :> "TooManyOpen") @@ (-10 :> "Busy") @@ (-11 :> "TryAgain") @@
    (-12 :> "BadFD") @@ (-13 :> "IsDir") @@ (-14 :> "NotDir") @@
    (-15 :> "NotEmpty") @@ (-16 :> "CrossDeviceLink") @@
    (-17 :> "Offline") @@ (-127 :> "UnknownError")

\* a check that lets the codes outside the table through
__check_response_table_only(response) ==
    IF response \in DOMAIN chirp_errors
    THEN RaisedCode(chirp_errors[response], response)
    ELSE NoResult

\* a check that keeps TryAgain and Busy to itself
__check_response_quiet_when_retryable(response) ==
    IF response \in {-10, -11} THEN NoResult
    ELSE IF response \in DOMAIN chirp_errors
    THEN RaisedCode(chirp_errors[response], response)
    ELSE IF response < 0 THEN RaisedCode("UnknownError", response)
    ELSE NoResult

\* NoResult: the method returns without raising
__check_response(response) ==
    IF response \in DOMAIN chirp_errors
    THEN RaisedCode(chirp_errors[response], response)
    ELSE IF response < 0 THEN RaisedCode("UnknownError", response)
    ELSE NoResult

(***************************************************************************)
(* __simple_response, lines 238-265.                                       *)
(***************************************************************************)
\* The loop of lines 249-254 on the bytes buf the socket can deliver, one
\* recv(1) at a time: "line" when the terminator was read, "toolarge" when
\* more than CHIRP_LINE_MAX bytes accumulated, "starved" when the socket
\* has no more bytes to give.  rest: the bytes left unread.
\* The loop ends with the first byte that is the terminator or that makes
\* the response longer than CHIRP_LINE_MAX (the length is tested first).
loop_stops(buf, n) ==
    {i \in 1..Len(buf) : buf[i] = NL \/ n + i > CHIRP_LINE_MAX}

\* stops that come one byte early
loop_stops_at_limit(buf, n) ==
    {i \in 1..Len(buf) : buf[i] = NL \/ n + i >= CHIRP_LINE_MAX}

first_of(S) == CHOOSE i \in S : \A j \in S : i <= j

\* the loop has ended with the i-th byte of buf
loop_ended(buf, response, i, over) ==
    [kind |-> IF over THEN "toolarge" ELSE "line",
     response |-> response \o SubSeq(buf, 1, i),
     rest |-> SubSeq(buf, i + 1, Len(buf))]

loop_starved(buf, response) ==
    [kind |-> "starved", response |-> response \o buf, rest |-> <<>>]

line_read(buf, response, stops) ==
    IF stops = {} THEN loop_starved(buf, response)
    ELSE loop_ended(buf, response, first_of(stops),
                    Len(response) + first_of(stops) > CHIRP_LINE_MAX)

\* a loop that takes what it has for a line when the socket runs dry
line_read_unterminated(buf, response, stops) ==
    IF stops = {}
    THEN [kind |-> "line", response |-> response \o buf, rest |-> <<>>]
    ELSE loop_ended(buf, response, first_of(stops),
                    Len(response) + first_of(stops) > CHIRP_LINE_MAX)

read_line_unterminated(buf, response) ==
    line_read_unterminated(buf, response, loop_stops(buf, Len(response)))

\* a loop that takes the byte after the terminator along with it
line_read_one_past(buf, response, stops) ==
    IF stops = {} THEN loop_starved(buf, response)
    ELSE [loop_ended(buf, response, first_of(stops),
                     Len(response) + first_of(stops) > CHIRP_LINE_MAX)
             EXCEPT !.rest = SubSeq(buf, first_of(stops) + 2, Len(buf))]

read_line_one_past(buf, response) ==
    line_read_one_past(buf, response, loop_stops(buf, Len(response)))

\* a loop that gives up when CHIRP_LINE_MAX bytes have accumulated
line_read_limit_reached(buf, response, stops) ==
    IF stops = {} THEN loop_starved(buf, response)
    ELSE loop_ended(buf, response, first_of(stops),
                    Len(response) + first_of(stops) >= CHIRP_LINE_MAX)

read_line_limit_reached(buf, response) ==
    line_read_limit_reached(buf, response,
                            loop_stops_at_limit(buf, Len(response)))

read_line(buf, response) ==
    line_read(buf, response, loop_stops(buf, Len(response)))

\* lines 257-265: checked is what __check_response did with int(response)
line_checked(response, checked) ==
    IF checked.kind = "raise" THEN checked ELSE Returned(response)

line_parsed(response, n) ==
    IF n.ok THEN line_checked(response, __check_response(n.val))
    ELSE Returned(response)

line_outcome(response) == line_parsed(response, PyInt(response))

\* end: what recv does once buf is used up: "timeout" raises socket.error
\* (socket.timeout), "eof" returns the empty string (the peer has closed),
\* and then the loop of line 249 never ends.
\* Result: out (how the method ends), rest (unread bytes), line (bytes read).
response_of(rl, end) ==
    [rest |-> rl.rest,
     line |-> rl.response,
     out |-> CASE rl.kind = "starved" ->
                    (IF end = "eof" THEN Hang ELSE Raised("socket.error"))
               [] rl.kind = "toolarge" -> Raised("EnvironmentError")
               [] OTHER -> line_outcome(rstrip(rl.response))]

__simple_response(buf, end) == response_of(read_line(buf, <<>>), end)

(***************************************************************************)
(* __get_fixed_data without output_file, lines 321-327.                    *)
(***************************************************************************)
Min(a, b) == IF a < b THEN a ELSE b

\* buf: the bytes the socket can deliver; k: the most the transport hands
\* over per recv; end: as for __simple_response.
RECURSIVE fixed_data_loop(_, _, _, _, _)
fixed_data_loop(length, buf, end, k, data) ==
    IF ~(Len(data) < length)
    THEN [out |-> Returned(data), rest |-> buf, data |-> data]
    ELSE IF buf = <<>>
    THEN [out |-> IF end = "eof" THEN Hang ELSE Raised("socket.error"),
          rest |-> buf, data |-> data]
    ELSE fixed_data_loop(length,
             SubSeq(buf, Min(Min(k, CHIRP_LINE_MAX), Len(buf)) + 1, Len(buf)),
             end, k,
             data \o SubSeq(buf, 1, Min(Min(k, CHIRP_LINE_MAX), Len(buf))))

__get_fixed_data(length, buf, end, k) ==
    fixed_data_loop(length, buf, end, k, <<>>)

(***************************************************************************)
(* __get_fixed_data with output_file, lines 311-319.  data: the bytes      *)
(* written to the file so far (bytes_recv is their number); the file is    *)
(* opened, and so emptied, before the first recv.                          *)
(***************************************************************************)
RECURSIVE file_data_loop(_, _, _, _, _)
file_data_loop(length, buf, end, k, data) ==
    IF ~(Len(data) < length)
    THEN [out |-> Returned(Len(data)), rest |-> buf, data |-> data]
    ELSE IF buf = <<>>
    THEN [out |-> IF end = "eof" THEN Hang ELSE Raised("socket.error"),
          rest |-> buf, data |-> data]
    ELSE file_data_loop(length,
             SubSeq(buf, Min(Min(k, CHIRP_LINE_MAX), Len(buf)) + 1, Len(buf)),
             end, k,
             data \o SubSeq(buf, 1, Min(Min(k, CHIRP_LINE_MAX), Len(buf))))

__get_fixed_data_to_file(length, buf, end, k) ==
    file_data_loop(length, buf, end, k, <<>>)

(***************************************************************************)
(* __get_fixed_data with the length readlink passes (lines 855-857): the   *)
(* response line itself, a str.  Python 2 orders every int before every    *)
(* str, so len(data) < length holds whatever has been received: the loop   *)
(* of line 324 takes all the socket delivers and then never ends (eof) or  *)
(* ends in socket.timeout.                                                 *)
(***************************************************************************)
__get_fixed_data_str_length(buf, end) ==
    [out |-> IF end = "eof" THEN Hang ELSE Raised("socket.error"),
     rest |-> <<>>, data |-> buf]

(***************************************************************************)
(* __get_line_data, lines 329-345.  At eof recv returns the empty string:  *)
(* data[-1] is an IndexError when nothing was received, and otherwise the  *)
(* loop never ends.                                                        *)
(***************************************************************************)
RECURSIVE line_data_loop(_, _, _, _)
RECURSIVE line_data_chunk(_, _, _, _, _)
line_data_chunk(buf, end, k, data, m) ==
    IF buf[m] = NL
    THEN [out |-> Returned(data \o SubSeq(buf, 1, m)),
          rest |-> SubSeq(buf, m + 1, Len(buf))]
    ELSE line_data_loop(SubSeq(buf, m + 1, Len(buf)), end, k,
                        data \o SubSeq(buf, 1, m))

line_data_loop(buf, end, k, data) ==
    IF buf = <<>>
    THEN [out |-> IF end = "timeout" THEN Raised("socket.error")
                  ELSE IF data = <<>> THEN Raised("IndexError")
                  ELSE Hang,
          rest |-> <<>>]
    ELSE line_data_chunk(buf, end, k, data,
                         Min(Min(k, CHIRP_LINE_MAX), Len(buf)))

__get_line_data(buf, end, k) == line_data_loop(buf, end, k, <<>>)

(***************************************************************************)
(* The transport.  One exchange x: what send does with the command         *)
(* ("ok": all of it goes out; "error": send raises socket.error; "zero":   *)
(* send returns 0), the bytes the peer then sends (stream), and what recv  *)
(* does once they are used up (end).                                       *)
(***************************************************************************)
Exchanges(streams) ==
    {[send |-> f, stream |-> <<>>, end |-> "timeout"] : f \in {"error", "zero"}}
        \cup {[send |-> "ok", stream |-> s, end |-> e] :
                  s \in streams, e \in {"timeout", "eof"}}

AuthStreams ==
    {<<"0", NL>>, <<"0", CR, NL>>, <<"1", NL>>, <<"-", "1", NL>>,
     <<"-", "2", NL>>, <<"-", "8", NL>>, <<"o", "k", NL>>, <<"0">>, <<>>,
     <<"0", NL, "7", NL>>}

OpStreams ==
    {<<"0", NL>>, <<"-", "3", NL>>, <<"-", "1", "1", NL>>,
     <<"-", "1", "0", NL>>, <<"o", "k", NL>>,
     <<"2", NL, "h", "i">>, <<"2", NL, "h">>, <<"1", NL, "h", "i">>, <<>>}

\* a connection attempt: refused or timed out, or established and followed
\* by the authentication exchange x
Connections ==
    {[conn |-> "refused", x |-> [send |-> "ok", stream |-> <<>>, end |-> "timeout"]]}
        \cup {[conn |-> "ok", x |-> x] : x \in Exchanges(AuthStreams)}

(***************************************************************************)
(* __simple_command, lines 214-236.                                        *)
(* Result: out, rest (unread bytes), and the record of the command on the  *)
(* wire: cmd, sent ("none", "partial", "all"), line (response bytes read),  *)
(* data (bytes __get_fixed_data received after the response line).         *)
(***************************************************************************)
command_sent(cmd, r) ==
    [out |-> r.out, rest |-> r.rest,
     wire |-> [cmd |-> cmd, sent |-> "all", line |-> r.line, data |-> <<>>]]

__simple_command(cmd, buf, x) ==
    IF cmd[Len(cmd)] # NL
    THEN [out |-> Raised("InvalidRequest"), rest |-> buf,
          wire |-> [cmd |-> cmd, sent |-> "none", line |-> <<>>,
                    data |-> <<>>]]
    ELSE IF x.send = "error"
    THEN [out |-> Raised("socket.error"), rest |-> buf,
          wire |-> [cmd |-> cmd, sent |-> "partial", line |-> <<>>,
                    data |-> <<>>]]
    ELSE IF x.send = "zero"
    THEN [out |-> Raised("RuntimeError"), rest |-> buf,
          wire |-> [cmd |-> cmd, sent |-> "partial", line |-> <<>>,
                    data |-> <<>>]]
    ELSE command_sent(cmd, __simple_response(buf \o x.stream, x.end))

(***************************************************************************)
(* __authenticate, lines 180-199.                                          *)
(* Result: out (NoResult: authenticated), rest, wire (commands sent).      *)
(***************************************************************************)
CHIRP_AUTH_METHODS == {"cookie", "hostname", "unix", "kerberos", "globus"}

\* lines 190-192 on the outcome c of the cookie command
cookie_checked_any_response(c) ==
    [out |-> IF c.out.kind = "return" THEN NoResult ELSE c.out,
     rest |-> c.rest, wire |-> <<c.wire>>]

cookie_checked(c) ==
    [out |-> IF c.out.kind = "return"
             THEN (IF c.out.value = <<"0">> THEN NoResult
                   ELSE Raised("NotAuthenticated"))
             ELSE c.out,
     rest |-> c.rest, wire |-> <<c.wire>>]

\* an authentication that sends nothing
__authenticate_skipped(method, secret, buf, x) ==
    [out |-> NoResult, rest |-> buf, wire |-> <<>>]

__authenticate(method, secret, buf, x) ==
    IF method = "cookie"
    THEN cookie_checked(
             __simple_command(<<"cookie", SP>> \o secret \o <<NL>>, buf, x))
    ELSE IF method \in CHIRP_AUTH_METHODS
    THEN [out |-> Raised("NotImplementedError"), rest |-> buf, wire |-> <<>>]
    ELSE [out |-> Raised("ValueError"), rest |-> buf, wire |-> <<>>]

(***************************************************************************)
(* __disconnect, lines 201-212: the socket, if there is one, is closed.    *)
(* (self.fds is reset too; no public operation ever fills it.)             *)
(***************************************************************************)
__disconnect(s) == IF s = "absent" THEN "absent" ELSE "closed"

\* the open sockets after self.__socket.close(): self.__socket is the
\* socket created last
closed_socket(ids) == ids \ {sockId}

(***************************************************************************)
(* __connect, lines 148-178.  A socket left open is closed (159-167), a    *)
(* new one is created (170), connected (174) and authenticated (175).      *)
(* Result: out, and the new socket's state, unread bytes and wire.         *)
(***************************************************************************)
\* lines 158-170 on the open sockets: getsockname succeeds on a socket
\* that was created and not closed, and the socket is then closed; the new
\* socket is created
connect_sockets_no_close(ids) == ids \cup {sockId + 1}

connect_sockets(ids) ==
    (IF sock \in {"created", "connected"} THEN closed_socket(ids) ELSE ids)
        \cup {sockId + 1}

connected(a) ==
    [out |-> a.out, sock |-> "connected", rx |-> a.rest, wire |-> a.wire]

\* a connection that goes on with the bytes the socket before had not read
__connect_on_unread_bytes(auth_method, b) ==
    IF b.conn = "refused"
    THEN [out |-> Raised("socket.error"), sock |-> "created",
          rx |-> <<>>, wire |-> <<>>]
    ELSE connected(__authenticate(
             IF auth_method = "None" THEN authentication ELSE auth_method,
             cookie, rx, b.x))

__connect(auth_method, b) ==
    IF b.conn = "refused"
    THEN [out |-> Raised("socket.error"), sock |-> "created",
          rx |-> <<>>, wire |-> <<>>]
    ELSE connected(__authenticate(
             IF auth_method = "None" THEN authentication ELSE auth_method,
             cookie, <<>>, b.x))

(***************************************************************************)
(* __init__, lines 112-128, from the loop on: one action per iteration.    *)
(***************************************************************************)
Methods == CHIRP_AUTH_METHODS \cup {"bogus"}

Cookies == {<<"s">>, <<"s", NL, "t">>}

\* after: how the call before this one ended; args: its numeric arguments
NoCall ==
    [op |-> "none", cmd |-> <<>>, shape |-> "none", after |-> "none",
     args |-> <<>>]

Init ==
    /\ pc = "init"
    /\ auth \in SeqsUpTo(Methods, MaxAuth)
    /\ idx = 1
    /\ attempts = <<>>
    /\ cookie \in Cookies
    /\ authentication = "None"
    /\ sock = "absent"
    /\ sockId = 0
    /\ opened = {}
    /\ rx = <<>>
    /\ wire = <<>>
    /\ call = [op |-> "__init__", cmd |-> <<>>, shape |-> "none",
               after |-> "none", args |-> <<>>]
    /\ result = NoResult
    /\ local_file = <<>>
    /\ written = <<>>
    /\ fin = <<>>
    /\ fout = <<>>
    /\ fpc = "off"

\* what the try statement of lines 115-125 does with the outcome of
\* __connect: "continue", "break", "raise" after a disconnect, "propagate"
init_handler_soft_unimplemented(out) ==
    CASE out.kind = "none" -> "break"
      [] out.kind = "raise" /\ out.error = "NotAuthenticated" -> "continue"
      [] out.kind = "raise" /\ out.error = "NotImplementedError" -> "continue"
      [] OTHER -> "propagate"

init_handler_no_break(out) ==
    CASE out.kind = "none" -> "continue"
      [] out.kind = "raise" /\ out.error = "NotAuthenticated" -> "continue"
      [] out.kind = "raise" /\ out.error = "NotImplementedError" -> "raise"
      [] OTHER -> "propagate"

init_handler(out) ==
    CASE out.kind = "none" -> "break"
      [] out.kind = "raise" /\ out.error = "NotAuthenticated" -> "continue"
      [] out.kind = "raise" /\ out.error = "NotImplementedError" -> "raise"
      [] OTHER -> "propagate"

\* lines 115-125 on the outcome c of __connect; h: what init_handler says
Attempted(b, c, h) ==
    /\ attempts' = Append(attempts,
            [method |-> auth[idx],
             connected |-> (b.conn = "ok"),
             outcome |-> IF c.out.kind = "none" THEN "ok"
                         ELSE IF c.out.kind = "hang" THEN "hang"
                         ELSE c.out.error])
    /\ sockId' = sockId + 1
    /\ wire' = c.wire
    /\ IF c.out.kind = "hang"
       THEN /\ pc' = "hung"
            /\ sock' = c.sock
            /\ opened' = connect_sockets(opened)
            /\ rx' = c.rx
            /\ UNCHANGED <<idx, authentication, result>>
       ELSE IF h = "propagate"
       THEN /\ pc' = "failed"
            /\ sock' = c.sock
            /\ opened' = connect_sockets(opened)
            /\ rx' = c.rx
            /\ result' = c.out
            /\ UNCHANGED <<idx, authentication>>
       ELSE /\ sock' = __disconnect(c.sock)
            /\ opened' = connect_sockets(opened) \ {sockId + 1}
            /\ rx' = <<>>
            /\ pc' = CASE h = "continue" -> "init"
                       [] h = "break" -> "constructed"
                       [] OTHER -> "failed"
            /\ idx' = IF h = "continue" THEN idx + 1 ELSE idx
            /\ authentication' =
                   IF c.out.kind = "none" THEN auth[idx] ELSE authentication
            /\ result' = IF h = "raise" THEN c.out ELSE result

AttemptedConnect(b, c) == Attempted(b, c, init_handler(c.out))

\* one iteration of the loop of line 114
AuthAttempt ==
    /\ pc = "init"
    /\ idx <= Len(auth)
    /\ \E b \in Connections : AttemptedConnect(b, __connect(auth[idx], b))
    /\ UNCHANGED <<auth, cookie, call, fileVars, funVars>>

\* the message of line 127 names the list auth
exhausted_error_first_only(methods) ==
    [kind |-> "raise", error |-> "NotAuthenticated", code |-> 0,
     value |-> SubSeq(methods, 1, Min(1, Len(methods)))]

exhausted_error(methods) ==
    [kind |-> "raise", error |-> "NotAuthenticated", code |-> 0,
     value |-> methods]

\* lines 126-128 after the loop has run out of methods
AuthExhausted ==
    /\ pc = "init"
    /\ idx > Len(auth)
    /\ IF authentication = "None"
       THEN pc' = "failed" /\ result' = exhausted_error(auth)
       ELSE pc' = "constructed" /\ UNCHANGED result
    /\ UNCHANGED <<auth, idx, attempts, cookie, authentication, sock, sockId,
                   opened, rx, wire, call, fileVars, funVars>>

\* __init__ returns: its parameters and locals are gone
InitReturn ==
    /\ pc = "constructed"
    /\ pc' = "ready"
    /\ auth' = <<>>
    /\ idx' = 0
    /\ attempts' = <<>>
    /\ call' = NoCall
    /\ result' = Returned(<<>>)
    /\ UNCHANGED <<cookie, authentication, sock, sockId, opened, rx, wire,
                   fileVars, funVars>>

(***************************************************************************)
(* The public operations, lines 509-657.  Each one starts here (its        *)
(* arguments are fixed and its command line is formatted), then runs       *)
(* OpConnect (its self.__connect()) and OpExchange (the rest of its body). *)
(* shape names the body: "simple" (command, disconnect), "fixed" (command, *)
(* int, __get_fixed_data, disconnect), "rmall" (command, self._disconnect).*)
(***************************************************************************)
Args == {<<"a">>, <<SP, NL>>, <<BS, TAB, CR>>}

\* how the call that has just ended did: "failed" by an error code of the
\* server, or by a transport fault after its command was handed to send
LastOutcome ==
    IF /\ result.kind = "raise"
       /\ \/ result.code < 0
          \/ /\ Len(wire) >= 2
             /\ result.error \in {"socket.error", "RuntimeError"}
    THEN "failed"
    ELSE "ended"

\* a call that raises before it connects
RaisedAtOnce(op, error, args) ==
    /\ pc = "ready"
    /\ sockId < MaxSockets
    /\ call' = [op |-> op, cmd |-> <<>>, shape |-> "none",
                after |-> LastOutcome, args |-> args]
    /\ result' = Raised(error)
    /\ wire' = <<>>
    /\ local_file' = <<>>
    /\ written' = <<>>
    /\ UNCHANGED <<pc, auth, idx, attempts, cookie, authentication, sock,
                   sockId, opened, rx, funVars>>

\* file: the bytes of the local file the call names, as the call finds them
StartCall(op, cmd, shape, file, args) ==
    /\ pc = "ready"
    /\ sockId < MaxSockets
    /\ pc' = "connect"
    /\ call' = [op |-> op, cmd |-> cmd, shape |-> shape,
                after |-> LastOutcome, args |-> args]
    /\ result' = NoResult
    /\ wire' = <<>>
    /\ local_file' = file
    /\ written' = <<>>
    /\ UNCHANGED <<auth, idx, attempts, cookie, authentication, sock, sockId,
                   opened, rx, funVars>>

StartWith(op, cmd, shape, file) == StartCall(op, cmd, shape, file, <<>>)

\* a call that names no local file
Start(op, cmd, shape) == StartWith(op, cmd, shape, <<>>)

get_job_attr ==
    \E job_attribute \in Args :
        Start("get_job_attr",
              <<"get_job_attr", SP>> \o quote(job_attribute) \o <<NL>>,
              "fixed")

get_job_attr_delayed ==
    \E job_attribute \in Args :
        Start("get_job_attr_delayed",
              <<"get_job_attr_delayed", SP>> \o quote(job_attribute) \o <<NL>>,
              "fixed")

set_job_attr ==
    \E job_attribute \in Args, attribute_value \in Args :
        Start("set_job_attr",
              <<"set_job_attr", SP>> \o quote(job_attribute) \o <<SP>>
                  \o quote(attribute_value) \o <<NL>>,
              "simple")

set_job_attr_delayed ==
    \E job_attribute \in Args, attribute_value \in Args :
        Start("set_job_attr_delayed",
              <<"set_job_attr_delayed", SP>> \o quote(job_attribute) \o <<SP>>
                  \o quote(attribute_value) \o <<NL>>,
              "simple")

ulog ==
    \E text \in Args :
        Start("ulog", <<"ulog", SP>> \o quote(text) \o <<NL>>, "simple")

phase ==
    \E phasestring \in Args :
        Start("phase", <<"phase", SP>> \o quote(phasestring) \o <<NL>>,
              "simple")

rename ==
    \E old_path \in Args, new_path \in Args :
        Start("rename",
              <<"rename", SP>> \o quote(old_path) \o <<SP>>
                  \o quote(new_path) \o <<NL>>,
              "simple")

unlink ==
    \E remote_file \in Args :
        Start("unlink", <<"unlink", SP>> \o quote(remote_file) \o <<NL>>,
              "simple")

\* recursive: self.__rmall does not exist (line 640): AttributeError before
\* anything is connected or sent
rmdir ==
    \E remote_path \in Args, recursive \in BOOLEAN :
        IF recursive
        THEN RaisedAtOnce("rmdir", "AttributeError", <<>>)
        ELSE Start("rmdir", <<"rmdir", SP>> \o quote(remote_path) \o <<NL>>,
                   "simple")

rmall ==
    \E remote_path \in Args :
        Start("rmall", <<"rmall", SP>> \o quote(remote_path) \o <<NL>>,
              "rmall")

\* getfile, lines 678-693; the local file may exist already
getfile ==
    \E remote_file \in Args, file \in {<<>>, <<"o", "l", "d">>} :
        StartWith("getfile",
                  <<"getfile", SP>> \o quote(remote_file) \o <<NL>>,
                  "getfile", file)

DEFAULT_MODE == 511

\* the local files putfile is given: all bytes alike, of these sizes
FileSizes ==
    {0, 1, CHIRP_LINE_MAX - 1, CHIRP_LINE_MAX, CHIRP_LINE_MAX + 1,
     2 * CHIRP_LINE_MAX, 2 * CHIRP_LINE_MAX + 1}

\* putfile, lines 698-733, with the default mode; length is the size
\* os.stat reports for the local file
putfile ==
    \E remote_file \in Args, length \in FileSizes :
        StartWith("putfile",
                  <<"putfile", SP>> \o quote(remote_file) \o <<SP>>
                      \o Decimal(DEFAULT_MODE) \o <<SP>> \o Decimal(length)
                      \o <<NL>>,
                  "putfile", [i \in 1..length |-> "d"])

getlongdir ==
    \E remote_path \in Args :
        Start("getlongdir",
              <<"getlongdir", SP>> \o quote(remote_path) \o <<NL>>, "longdir")

readlink ==
    \E remote_path \in Args :
        Start("readlink", <<"readlink", SP>> \o quote(remote_path) \o <<NL>>,
              "readlink")

\* stat, lstat, statfs, lines 862-932: the names of the fields
stat_names ==
    <<"device", "inode", "mode", "nlink", "uid", "gid", "rdevice", "size",
      "blksize", "blocks", "atime", "mtime", "ctime">>

statfs_names ==
    <<"f_type", "f_bsize", "f_blocks", "f_bfree", "f_bavail", "f_files",
      "f_free">>

stat ==
    \E remote_path \in Args :
        Start("stat", <<"stat", SP>> \o quote(remote_path) \o <<NL>>, "stat")

lstat ==
    \E remote_path \in Args :
        Start("lstat", <<"lstat", SP>> \o quote(remote_path) \o <<NL>>, "stat")

statfs ==
    \E remote_path \in Args :
        Start("statfs", <<"statfs", SP>> \o quote(remote_path) \o <<NL>>,
              "statfs")

\* access, lines 942-960
modes == {"f", "r", "w", "x"}

ModeStrs == {<<"r">>, <<"f", "x">>, <<"r", "w", "x">>, <<"r", "q">>}

\* a letter outside modes: ValueError before anything is connected;
\* otherwise the call goes on to self.__connect()
access ==
    \E remote_path \in Args, mode_str \in ModeStrs :
        IF \E i \in 1..Len(mode_str) : mode_str[i] \notin modes
        THEN RaisedAtOnce("access", "ValueError", <<>>)
        ELSE Start("access", <<>>, "access")

\* getdir, lines 761-780; with stat_dict the name getlongdir is looked up
\* as a global (line 771), and there is none: NameError
getdir ==
    \E remote_path \in Args, stat_dict \in BOOLEAN :
        IF stat_dict THEN RaisedAtOnce("getdir", "NameError", <<>>)
        ELSE Start("getdir", <<"getdir", SP>> \o quote(remote_path) \o <<NL>>,
                   "dir")

\* link, lines 814-830; symbolic: self.__symlink does not exist (line 824)
link ==
    \E old_path \in Args, new_path \in {<<"b">>}, symbolic \in BOOLEAN :
        IF symbolic THEN RaisedAtOnce("link", "AttributeError", <<>>)
        ELSE Start("link",
                   <<"link", SP>> \o quote(old_path) \o <<SP>>
                       \o quote(new_path) \o <<NL>>,
                   "simple")

symlink ==
    \E old_path \in Args, new_path \in {<<"b">>} :
        Start("symlink",
              <<"symlink", SP>> \o quote(old_path) \o <<SP>>
                  \o quote(new_path) \o <<NL>>,
              "simple")

(***************************************************************************)
(* chmod, chown, lchown, truncate, utime, lines 962-1041.  A numeric       *)
(* argument is an int, a float (val and a half), a str or None; int() of   *)
(* it is taken while the command is formatted, after self.__connect().     *)
(***************************************************************************)
IntArg(n) == [val |-> n, text |-> <<>>, type |-> "int"]

\* the float val + 0.5, val >= 0
FloatArg(n) == [val |-> n, text |-> <<>>, type |-> "float"]

StrArg(t) == [val |-> 0, text |-> t, type |-> "str"]

NoneArg == [val |-> 0, text |-> <<>>, type |-> "none"]

\* int(a): a float is cut to its whole part, a str is parsed
int(a) ==
    CASE a.type = "int" -> [ok |-> TRUE, val |-> a.val, error |-> ""]
      [] a.type = "float" -> [ok |-> TRUE, val |-> a.val, error |-> ""]
      [] a.type = "str" ->
            [ok |-> PyInt(a.text).ok, val |-> PyInt(a.text).val,
             error |-> IF PyInt(a.text).ok THEN "" ELSE "ValueError"]
      [] OTHER -> [ok |-> FALSE, val |-> 0, error |-> "TypeError"]

NumArgs == {IntArg(7), FloatArg(1), StrArg(<<"1", "2">>), StrArg(<<"x">>),
            NoneArg}

\* the paths given with them
NumPaths == {<<"a">>, <<SP, NL>>}

NumArgPairs ==
    {<<IntArg(7), IntArg(0)>>, <<IntArg(7), FloatArg(1)>>,
     <<StrArg(<<"x">>), NoneArg>>, <<NoneArg, StrArg(<<"x">>)>>,
     <<IntArg(0), StrArg(<<"x">>)>>}

\* the arguments in the order format takes them: the first int() that
\* fails raises
first_error(args) ==
    int(args[CHOOSE i \in 1..Len(args) :
                 ~int(args[i]).ok /\ \A j \in 1..(i - 1) : int(args[j]).ok])
        .error

RECURSIVE numbers(_)
numbers(args) ==
    IF args = <<>> THEN <<>>
    ELSE <<SP>> \o Decimal(int(Head(args)).val) \o numbers(Tail(args))

numeric_call(verb, remote_path, args) ==
    IF \A i \in 1..Len(args) : int(args[i]).ok
    THEN StartCall(verb,
                   <<verb, SP>> \o quote(remote_path) \o numbers(args)
                       \o <<NL>>,
                   "simple", <<>>, args)
    ELSE StartCall(verb, <<>>, "invalid", <<>>, args)

\* mkdir, lines 659-676: without a mode, DEFAULT_MODE
MkdirModes == {NoneArg, IntArg(7), StrArg(<<"x">>)}

default_mode == IntArg(DEFAULT_MODE)

mkdir ==
    \E remote_path \in NumPaths, mode \in MkdirModes :
        numeric_call("mkdir", remote_path,
                     <<IF mode.type = "none" THEN default_mode ELSE mode>>)

\* whoami, lines 782-795, and whoareyou, lines 797-812
whoami ==
    Start("whoami", <<"whoami", SP>> \o Decimal(CHIRP_LINE_MAX) \o <<NL>>,
          "fixed")

whoareyou ==
    \E remote_host \in Args :
        Start("whoareyou",
              <<"whoareyou", SP>> \o quote(remote_host) \o <<SP>>
                  \o Decimal(CHIRP_LINE_MAX) \o <<NL>>,
              "fixed")

chmod ==
    \E remote_path \in NumPaths, mode \in NumArgs :
        numeric_call("chmod", remote_path, <<mode>>)

chown ==
    \E remote_path \in NumPaths, ids \in NumArgPairs :
        numeric_call("chown", remote_path, ids)

lchown ==
    \E remote_path \in NumPaths, ids \in NumArgPairs :
        numeric_call("lchown", remote_path, ids)

truncate ==
    \E remote_path \in NumPaths, length \in NumArgs :
        numeric_call("truncate", remote_path, <<length>>)

utime ==
    \E remote_path \in NumPaths, times \in NumArgPairs :
        numeric_call("utime", remote_path, times)

(***************************************************************************)
(* What the server sends in answer to the commands that are followed by    *)
(* lines of integers.                                                      *)
(***************************************************************************)
\* the decimal texts of the numbers first, first + step, ... (n of them)
Tokens(n, first, step) == [i \in 1..n |-> Decimal(first + step * (i - 1))]

\* the tokens in order, a newline after each token whose position is in
\* cuts and after the last one, a space after every other one
RECURSIVE Lines(_, _, _)
Lines(tokens, cuts, i) ==
    IF i > Len(tokens) THEN <<>>
    ELSE tokens[i]
             \o (IF i = Len(tokens) \/ i \in cuts THEN <<NL>> ELSE <<SP>>)
             \o Lines(tokens, cuts, i + 1)

StatStreams(n) ==
    {<<"0", NL>> \o Lines(Tokens(n, 1, 1), cuts, 1) :
         cuts \in {{}, {2}, {n - 1}, {1, 4, 6}}}
        \cup {<<"0", NL>> \o Lines(Tokens(n - 1, 1, 1), {}, 1),
              <<"0", NL>> \o Lines(Tokens(n - 1, 1, 1), {}, 1) \o <<"x", NL>>,
              <<"0", NL>>, <<"-", "3", NL>>}

\* a directory of the files named in names, each followed by its stat line
RECURSIVE Listing(_, _)
Listing(names, n) ==
    IF names = <<>> THEN <<>>
    ELSE Head(names) \o <<NL>> \o Lines(Tokens(n, Len(names), 1), {}, 1)
             \o Listing(Tail(names), n)

Announced(payload) == Decimal(Len(payload)) \o <<NL>> \o payload

LongdirStreams ==
    {Announced(Listing(names, Len(stat_names))) :
         names \in {<<>>, <<<<"a">>>>, <<<<"a">>, <<"b", "c">>>>}}
        \cup {Announced(<<"a", NL, "x", NL>>), <<"-", "3", NL>>,
              <<"5", NL, "a", NL>>}

DirStreams ==
    {Announced(<<>>), Announced(<<"a", NL>>),
     Announced(<<"a", NL, "b", "c", NL>>), <<"-", "3", NL>>}

Streams(shape) ==
    CASE shape = "stat" -> StatStreams(Len(stat_names))
      [] shape = "dir" -> DirStreams
      [] shape = "statfs" -> StatStreams(Len(statfs_names))
      [] shape = "longdir" -> LongdirStreams
      [] OTHER -> OpStreams

OpConnected(c) ==
    /\ sockId' = sockId + 1
    /\ opened' = connect_sockets(opened)
    /\ sock' = c.sock
    /\ rx' = c.rx
    /\ wire' = c.wire
    /\ pc' = CASE c.out.kind = "none" -> "exchange"
               [] c.out.kind = "hang" -> "hung"
               [] OTHER -> "ready"
    /\ result' = IF c.out.kind = "raise" THEN c.out ELSE result

\* the self.__connect() that opens every operation's body
OpConnect ==
    /\ pc = "connect"
    /\ \E b \in Connections : OpConnected(__connect("None", b))
    /\ UNCHANGED <<auth, idx, attempts, cookie, authentication, call,
                   fileVars, funVars>>

\* the body of an operation after self.__connect(): out, rest, the command
\* on the wire, and whether self.__disconnect() was reached.
\* sc: the outcome of its __simple_command.
ended(sc, out, rest, disconnected) ==
    [out |-> out, rest |-> rest, wire |-> sc.wire,
     disconnected |-> disconnected, file |-> local_file, written |-> <<>>]

\* fd: how __get_fixed_data ended
received(sc, fd, out, disconnected, file) ==
    [out |-> out, rest |-> fd.rest, wire |-> [sc.wire EXCEPT !.data = fd.data],
     disconnected |-> disconnected, file |-> file, written |-> <<>>]

fixed_received(sc, fd) ==
    received(sc, fd, fd.out, fd.out.kind = "return", local_file)

fixed_length(sc, n, x, k) ==
    IF ~n.ok
    THEN ended(sc, Raised("ValueError"), sc.rest, FALSE)
    ELSE fixed_received(sc, __get_fixed_data(n.val, sc.rest, x.end, k))

\* getfile, lines 687-693: the file is written as far as the data came
getfile_received(sc, fd) ==
    received(sc, fd, fd.out, fd.out.kind = "return", fd.data)

getfile_length(sc, n, x, k) ==
    IF ~n.ok THEN ended(sc, Raised("ValueError"), sc.rest, FALSE)
    ELSE getfile_received(sc,
             __get_fixed_data_to_file(n.val, sc.rest, x.end, k))

\* readlink, lines 854-860
readlink_received(sc, fd) ==
    received(sc, fd, fd.out, fd.out.kind = "return", local_file)

\* putfile, lines 724-733: the file is read and written CHIRP_LINE_MAX
\* bytes at a time until a read returns nothing
RECURSIVE file_chunks_whole_only(_)
file_chunks_whole_only(data) ==
    IF Len(data) < CHIRP_LINE_MAX THEN <<>>
    ELSE <<SubSeq(data, 1, CHIRP_LINE_MAX)>>
             \o file_chunks_whole_only(
                    SubSeq(data, CHIRP_LINE_MAX + 1, Len(data)))

RECURSIVE file_chunks(_)
file_chunks(data) ==
    IF data = <<>> THEN <<>>
    ELSE <<SubSeq(data, 1, Min(CHIRP_LINE_MAX, Len(data)))>>
             \o file_chunks(SubSeq(data, Min(CHIRP_LINE_MAX, Len(data)) + 1,
                                   Len(data)))

RECURSIVE bytes_in(_)
bytes_in(chunks) ==
    IF chunks = <<>> THEN 0 ELSE Len(Head(chunks)) + bytes_in(Tail(chunks))

putfile_written(sc, chunks) ==
    [out |-> Returned(bytes_in(chunks)), rest |-> sc.rest, wire |-> sc.wire,
     disconnected |-> TRUE, file |-> local_file, written |-> chunks]

\* getlongdir, lines 746-759
getlongdir_names ==
    <<"device", "inode", "mode", "nlink", "uid", "gid", "rdevicesize",
      "blksize", "blocks", "atime", "mtime", "ctime">>

\* results[start::2], counting from 1
every_other(results, start) ==
    [i \in 1..((Len(results) - start) \div 2 + 1) |->
        results[start + 2 * (i - 1)]]

longdir_stats(lines) == [i \in 1..Len(lines) |-> ints(split(lines[i]))]

longdir_dict(files, stats) ==
    IF \E i \in 1..Len(stats) : ~stats[i].ok THEN Raised("ValueError")
    ELSE Returned(dict_zip(files,
             [i \in 1..Len(stats) |->
                 dict_zip(getlongdir_names, stats[i].val)]))

longdir_results(results) ==
    longdir_dict(every_other(results, 1),
                 longdir_stats(every_other(results, 2)))

longdir_received(sc, fd) ==
    IF fd.out.kind # "return"
    THEN received(sc, fd, fd.out, FALSE, local_file)
    ELSE received(sc, fd,
             longdir_results(split_on(rstrip(fd.out.value), NL, <<>>, <<>>)),
             TRUE, local_file)

longdir_length(sc, n, x, k) ==
    IF ~n.ok THEN ended(sc, Raised("ValueError"), sc.rest, FALSE)
    ELSE longdir_received(sc, __get_fixed_data(n.val, sc.rest, x.end, k))

\* getdir, lines 773-780
dir_received(sc, fd) ==
    IF fd.out.kind # "return"
    THEN received(sc, fd, fd.out, FALSE, local_file)
    ELSE received(sc, fd,
             Returned(split_on(rstrip(fd.out.value), NL, <<>>, <<>>)),
             TRUE, local_file)

dir_length(sc, n, x, k) ==
    IF ~n.ok THEN ended(sc, Raised("ValueError"), sc.rest, FALSE)
    ELSE dir_received(sc, __get_fixed_data(n.val, sc.rest, x.end, k))

\* stat, lstat, statfs, lines 872-884 and 918-932: lines are taken until
\* the accumulated text holds as many tokens as there are names
RECURSIVE stat_accumulate(_, _, _, _, _)
RECURSIVE stat_next(_, _, _, _, _)
\* the next line appended without the separating space
stat_next_glued(names, end, k, text, ld) ==
    IF ld.out.kind # "return" THEN ld
    ELSE stat_accumulate(names, ld.rest, end, k, text \o rstrip(ld.out.value))

stat_next(names, end, k, text, ld) ==
    IF ld.out.kind # "return" THEN ld
    ELSE stat_accumulate(names, ld.rest, end, k,
                         text \o <<SP>> \o rstrip(ld.out.value))

stat_accumulate(names, buf, end, k, text) ==
    IF ~(Len(split(text)) < Len(names))
    THEN [out |-> Returned(text), rest |-> buf]
    ELSE stat_next(names, end, k, text, __get_line_data(buf, end, k))

stat_first(names, end, k, ld) ==
    IF ld.out.kind # "return" THEN ld
    ELSE stat_accumulate(names, ld.rest, end, k, rstrip(ld.out.value))

stat_ints(names, n) ==
    IF n.ok THEN Returned(dict_zip(names, n.val)) ELSE Raised("ValueError")

\* acc: how the accumulation ended; after it the socket is closed
stat_parsed(names, acc) ==
    IF acc.out.kind # "return"
    THEN [out |-> acc.out, rest |-> acc.rest, disconnected |-> FALSE]
    ELSE [out |-> stat_ints(names, ints(split(acc.out.value))),
          rest |-> acc.rest, disconnected |-> TRUE]

\* the body of stat after its command was answered, on the bytes buf
stat_payload(names, buf, end, k) ==
    stat_parsed(names, stat_first(names, end, k, __get_line_data(buf, end, k)))

stat_received(sc, r) == ended(sc, r.out, r.rest, r.disconnected)

body_after_command(shape, sc, x, k) ==
    IF sc.out.kind # "return"
    THEN ended(sc, sc.out, sc.rest, FALSE)
    ELSE CASE shape = "simple" -> ended(sc, Returned(<<>>), sc.rest, TRUE)
           [] shape = "rmall" ->
                ended(sc, Raised("AttributeError"), sc.rest, FALSE)
           [] shape = "fixed" ->
                fixed_length(sc, PyInt(sc.out.value), x, k)
           [] shape = "getfile" ->
                getfile_length(sc, PyInt(sc.out.value), x, k)
           [] shape = "readlink" ->
                readlink_received(sc,
                    __get_fixed_data_str_length(sc.rest, x.end))
           [] shape = "putfile" ->
                putfile_written(sc, file_chunks(local_file))
           [] shape = "longdir" ->
                longdir_length(sc, PyInt(sc.out.value), x, k)
           [] shape = "dir" ->
                dir_length(sc, PyInt(sc.out.value), x, k)
           [] shape = "stat" ->
                stat_received(sc, stat_payload(stat_names, sc.rest, x.end, k))
           [] shape = "statfs" ->
                stat_received(sc,
                    stat_payload(statfs_names, sc.rest, x.end, k))

\* the arguments of format did not evaluate: nothing was sent
unformatted(error, buf) ==
    [out |-> Raised(error), rest |-> buf,
     wire |-> [cmd |-> <<>>, sent |-> "none", line |-> <<>>, data |-> <<>>],
     disconnected |-> FALSE, file |-> local_file, written |-> <<>>]

\* access, lines 956-960: mode_oct is no name of the program: NameError;
\* chmod and the like: an int() that fails
body(c, buf, x, k) ==
    IF c.shape = "access" THEN unformatted("NameError", buf)
    ELSE IF c.shape = "invalid" THEN unformatted(first_error(c.args), buf)
    ELSE body_after_command(c.shape, __simple_command(c.cmd, buf, x), x, k)

OpExchanged(r) ==
    /\ wire' = IF r.wire.cmd = <<>> THEN wire ELSE Append(wire, r.wire)
    /\ local_file' = r.file
    /\ written' = r.written
    /\ sock' = IF r.disconnected THEN __disconnect(sock) ELSE sock
    /\ opened' = IF r.disconnected THEN closed_socket(opened) ELSE opened
    /\ rx' = IF r.disconnected THEN <<>> ELSE r.rest
    /\ pc' = IF r.out.kind = "hang" THEN "hung" ELSE "ready"
    /\ result' = r.out

OpExchange ==
    /\ pc = "exchange"
    /\ \E x \in Exchanges(Streams(call.shape)), k \in 1..MaxChunk :
         OpExchanged(body(call, rx, x, k))
    /\ UNCHANGED <<auth, idx, attempts, cookie, authentication, sockId, call,
                   funVars>>

\* __del__, lines 133-135: the client object goes away
__del__ ==
    /\ pc \in {"ready", "failed"}
    /\ pc' = "deleted"
    /\ sock' = __disconnect(sock)
    /\ opened' = closed_socket(opened)
    /\ rx' = <<>>
    /\ UNCHANGED <<auth, idx, attempts, cookie, authentication, sockId, wire,
                   call, result, fileVars, funVars>>

Next ==
    \/ AuthAttempt
    \/ AuthExhausted
    \/ InitReturn
    \/ get_job_attr
    \/ get_job_attr_delayed
    \/ set_job_attr
    \/ set_job_attr_delayed
    \/ ulog
    \/ phase
    \/ rename
    \/ unlink
    \/ rmdir
    \/ rmall
    \/ getfile
    \/ putfile
    \/ getlongdir
    \/ readlink
    \/ stat
    \/ lstat
    \/ statfs
    \/ access
    \/ mkdir
    \/ whoami
    \/ whoareyou
    \/ OpConnect
    \/ OpExchange
    \/ __del__

Spec == Init /\ [][Next]_vars

(***************************************************************************)
(* SpecPaths: the client again, with the operations on directory           *)
(* listings, links, modes, owners, lengths and times.                      *)
(***************************************************************************)
NextPaths ==
    \/ AuthAttempt
    \/ AuthExhausted
    \/ InitReturn
    \/ getdir
    \/ link
    \/ symlink
    \/ chmod
    \/ chown
    \/ lchown
    \/ truncate
    \/ utime
    \/ OpConnect
    \/ OpExchange
    \/ __del__

SpecPaths == Init /\ [][NextPaths]_vars

(***************************************************************************)
(* SpecQuote: quote applied to every string of at most MaxLen characters.  *)
(***************************************************************************)
QuoteAlphabet == {BS, SP, NL, TAB, CR, "a", "n"}

ClientIdle ==
    /\ pc = "off"
    /\ auth = <<>>
    /\ idx = 0
    /\ attempts = <<>>
    /\ cookie = <<>>
    /\ authentication = "None"
    /\ sock = "absent"
    /\ sockId = 0
    /\ opened = {}
    /\ rx = <<>>
    /\ wire = <<>>
    /\ call = NoCall
    /\ result = NoResult
    /\ local_file = <<>>
    /\ written = <<>>

InitQuote ==
    /\ ClientIdle
    /\ fin \in SeqsUpTo(QuoteAlphabet, MaxLen)
    /\ fout = <<>>
    /\ fpc = "in"

ApplyQuote ==
    /\ fpc = "in"
    /\ fout' = quote(fin)
    /\ fpc' = "out"
    /\ UNCHANGED <<fin, clientVars>>

NextQuote == ApplyQuote

SpecQuote == InitQuote /\ [][NextQuote]_vars

(***************************************************************************)
(* SpecResp: __simple_response applied to one response line: the decimal   *)
(* text of every code up to MaxCode in magnitude, and every line of at     *)
(* most MaxRespLen characters of RespAlphabet.                             *)
(***************************************************************************)
RespAlphabet == {"-", "+", "0", "1", "7", SP, "x"}

RespLines ==
    {Decimal(n) : n \in (0 - MaxCode)..MaxCode}
        \cup SeqsUpTo(RespAlphabet, MaxRespLen)

InitResp ==
    /\ ClientIdle
    /\ fin \in {Append(l, NL) : l \in RespLines}
    /\ fout = NoResult
    /\ fpc = "in"

ApplyResp ==
    /\ fpc = "in"
    /\ fout' = __simple_response(fin, "timeout").out
    /\ fpc' = "out"
    /\ UNCHANGED <<fin, clientVars>>

NextResp == ApplyResp

SpecResp == InitResp /\ [][NextResp]_vars

(***************************************************************************)
(* SpecLine: __simple_response applied to the bytes a socket delivers:     *)
(* every stream of at most MaxRespLen + 1 characters of LineAlphabet, and  *)
(* lines whose length is at CHIRP_LINE_MAX or next to it, with and without *)
(* bytes after the terminator.                                             *)
(***************************************************************************)
LineAlphabet == {"0", "7", "h", SP, NL}

Filled(n) == [i \in 1..n |-> "x"]

LongStreams ==
    {Filled(n) \o t :
         n \in (CHIRP_LINE_MAX - 2)..(CHIRP_LINE_MAX + 1),
         t \in {<<>>, <<NL>>, <<SP, NL>>, <<NL, "h", NL>>}}

LineStreams == SeqsUpTo(LineAlphabet, MaxRespLen + 1) \cup LongStreams

InitLine ==
    /\ ClientIdle
    /\ fin \in [stream : LineStreams, end : {"timeout", "eof"}]
    /\ fout = NoResult
    /\ fpc = "in"

ApplyLine ==
    /\ fpc = "in"
    /\ fout' = __simple_response(fin.stream, fin.end)
    /\ fpc' = "out"
    /\ UNCHANGED <<fin, clientVars>>

NextLine == ApplyLine

SpecLine == InitLine /\ [][NextLine]_vars

(***************************************************************************)
(* SpecConc: two threads call public methods of one constructed client.    *)
(* Every statement of __connect, __simple_command, __simple_response and   *)
(* __disconnect reads the attribute self.__socket anew, and a thread       *)
(* switch can come between any two of them: each action is one statement's *)
(* call on the socket.  Here pc, call and result are per thread, sock is   *)
(* the number of the socket object self.__socket names, opened the set of  *)
(* sockets not closed, wire the set of sockets connected to the server,    *)
(* and rx gives for each socket the bytes the server has sent on it that   *)
(* are not read yet.  The server answers every command with the line "0";  *)
(* it is never at fault.                                                   *)
(***************************************************************************)
Threads == {1, 2}

\* the locals of a method just entered: own is the socket its __connect
\* creates, response the bytes __simple_response has put together
entered == [response |-> <<>>, op |-> "unlink", own |-> 0]

not_entered == [response |-> <<>>, op |-> "none", own |-> 0]

\* the client after a construction that authenticated on its first socket
InitConc ==
    /\ pc = [t \in Threads |-> "idle"]
    /\ call = [t \in Threads |-> not_entered]
    /\ result = [t \in Threads |-> NoResult]
    /\ sock = 1
    /\ sockId = 1
    /\ opened = {}
    /\ wire = {1}
    /\ rx = << <<>> >>
    /\ auth = <<>>
    /\ idx = 0
    /\ attempts = <<>>
    /\ cookie = <<"s">>
    /\ authentication = "cookie"
    /\ local_file = <<>>
    /\ written = <<>>
    /\ fin = <<>>
    /\ fout = <<>>
    /\ fpc = "off"

\* thread t has moved to position p; the variables of the other
\* specifications stay as they are
at(t, p) ==
    /\ pc' = [pc EXCEPT ![t] = p]
    /\ UNCHANGED <<auth, idx, attempts, cookie, authentication, result,
                   fileVars, funVars>>

\* thread t's method has ended with outcome out
finished(t, p, out) ==
    /\ pc' = [pc EXCEPT ![t] = p]
    /\ result' = [result EXCEPT ![t] = out]
    /\ UNCHANGED <<auth, idx, attempts, cookie, authentication,
                   fileVars, funVars>>

\* a thread enters a public method, its first or the one after the last
thread_call(t) ==
    /\ pc[t] \in {"idle", "returned", "raised"}
    /\ sockId < MaxSockets
    /\ finished(t, "probe", NoResult)
    /\ call' = [call EXCEPT ![t] = entered]
    /\ UNCHANGED <<sock, sockId, opened, wire, rx>>

\* __connect, line 160: getsockname succeeds on a socket that is not
\* closed, and raises socket.error on a closed one
connect_probe(t) ==
    /\ pc[t] = "probe"
    /\ at(t, IF sock \in opened THEN "close" ELSE "create")
    /\ UNCHANGED <<call, sock, sockId, opened, wire, rx>>

\* __connect, line 167, __disconnect, line 205: close on the socket
\* self.__socket names by now
connect_close(t) ==
    /\ pc[t] = "close"
    /\ at(t, "create")
    /\ opened' = opened \ {sock}
    /\ UNCHANGED <<call, sock, sockId, wire, rx>>

\* __connect, line 170: a new socket is bound to self.__socket; the socket
\* it named before has no reference left, and is closed with its object
connect_create(t) ==
    /\ pc[t] = "create"
    /\ sockId < MaxSockets
    /\ at(t, "settimeout")
    /\ sockId' = sockId + 1
    /\ sock' = sockId + 1
    /\ opened' = (opened \ {sock}) \cup {sockId + 1}
    /\ rx' = Append(rx, <<>>)
    /\ call' = [call EXCEPT ![t].own = sockId + 1]
    /\ UNCHANGED wire

\* __connect, line 171: socket.error on a closed socket
connect_settimeout(t) ==
    /\ pc[t] = "settimeout"
    /\ IF sock \in opened
       THEN at(t, "connect")
       ELSE finished(t, "raised", Raised("socket.error"))
    /\ UNCHANGED <<call, sock, sockId, opened, wire, rx>>

\* __connect, line 174: socket.error on a closed socket and on a socket
\* that is connected already
connect_connect(t) ==
    /\ pc[t] = "connect"
    /\ IF sock \in opened /\ sock \notin wire
       THEN at(t, "auth_send") /\ wire' = wire \cup {sock}
       ELSE finished(t, "raised", Raised("socket.error")) /\ UNCHANGED wire
    /\ UNCHANGED <<call, sock, sockId, opened, rx>>

\* self.__socket.send(...), line 231: socket.error on a socket that is
\* closed or not connected
socket_send(t, then) ==
    /\ IF sock \in opened /\ sock \in wire
       THEN at(t, then) /\ rx' = [rx EXCEPT ![sock] = rx[sock] \o <<"0", NL>>]
       ELSE finished(t, "raised", Raised("socket.error")) /\ UNCHANGED rx
    /\ UNCHANGED <<call, sock, sockId, opened, wire>>

\* lines 255-265 and, for the cookie, lines 190-192: how the method goes
\* on with the line it has read
line_taken(t, then, strict, out) ==
    IF out.kind = "return" /\ (~strict \/ out.value = <<"0">>)
    THEN at(t, then)
    ELSE finished(t, "raised",
               IF out.kind = "return" THEN Raised("NotAuthenticated")
               ELSE out)

\* lines 251-254: the byte chunk is added to the response
byte_taken(t, then, strict, response, chunk) ==
    /\ IF Len(response) > CHIRP_LINE_MAX
       THEN finished(t, "raised", Raised("EnvironmentError"))
       ELSE IF chunk = NL
            THEN line_taken(t, then, strict, line_outcome(rstrip(response)))
            ELSE at(t, pc[t])
    /\ call' = [call EXCEPT ![t].response =
                   IF chunk = NL \/ Len(response) > CHIRP_LINE_MAX
                   THEN <<>> ELSE response]

\* one self.__socket.recv(1) of the loop of lines 249-254: a byte is taken
\* from the socket self.__socket names by now; socket.error when it is
\* closed, not connected or silent
socket_recv(t, then, strict) ==
    /\ IF sock \in opened /\ sock \in wire /\ rx[sock] # <<>>
       THEN /\ rx' = [rx EXCEPT ![sock] = Tail(rx[sock])]
            /\ byte_taken(t, then, strict,
                          Append(call[t].response, Head(rx[sock])),
                          Head(rx[sock]))
       ELSE /\ finished(t, "raised", Raised("socket.error"))
            /\ call' = [call EXCEPT ![t].response = <<>>]
            /\ UNCHANGED rx
    /\ UNCHANGED <<sock, sockId, opened, wire>>

\* __authenticate, lines 188-192
auth_send(t) == pc[t] = "auth_send" /\ socket_send(t, "auth_recv")

auth_recv(t) == pc[t] = "auth_recv" /\ socket_recv(t, "cmd_send", TRUE)

\* the method's __simple_command
cmd_send(t) == pc[t] = "cmd_send" /\ socket_send(t, "cmd_recv")

cmd_recv(t) == pc[t] = "cmd_recv" /\ socket_recv(t, "disconnect", FALSE)

\* the method's self.__disconnect(), lines 201-212
op_disconnect(t) ==
    /\ pc[t] = "disconnect"
    /\ finished(t, "returned", Returned(<<>>))
    /\ opened' = opened \ {sock}
    /\ UNCHANGED <<call, sock, sockId, wire, rx>>

NextConc ==
    \/ \E t \in Threads : thread_call(t)
    \/ \E t \in Threads : connect_probe(t)
    \/ \E t \in Threads : connect_close(t)
    \/ \E t \in Threads : connect_create(t)
    \/ \E t \in Threads : connect_settimeout(t)
    \/ \E t \in Threads : connect_connect(t)
    \/ \E t \in Threads : auth_send(t)
    \/ \E t \in Threads : auth_recv(t)
    \/ \E t \in Threads : cmd_send(t)
    \/ \E t \in Threads : cmd_recv(t)
    \/ \E t \in Threads : op_disconnect(t)

SpecConc == InitConc /\ [][NextConc]_vars

(***************************************************************************)
(* SpecStat: stat and statfs applied to a payload of as many integers as   *)
(* there are field names, cut into lines after the tokens of cuts and      *)
(* delivered at most k bytes per recv.                                     *)
(***************************************************************************)
ChunkSizes == {1, 7, CHIRP_LINE_MAX}

TokenRuns == {<<1, 1>>, <<0 - 5, 1>>, <<98, 1>>}

NamesOf(shape) == IF shape = "statfs" THEN statfs_names ELSE stat_names

\* at most three cuts: two to four lines, or one line when there is none
CutSets(n) == {c \in SUBSET (1..(n - 1)) : Cardinality(c) <= 3}

StatInputs(shape) ==
    {[shape |-> shape, first |-> r[1], step |-> r[2], cuts |-> c, k |-> k] :
         r \in TokenRuns, c \in CutSets(Len(NamesOf(shape))), k \in ChunkSizes}

InitStat ==
    /\ ClientIdle
    /\ fin \in StatInputs("stat") \cup StatInputs("statfs")
    /\ fout = NoResult
    /\ fpc = "in"

\* the body of the call after self.__connect(), the server answering 0 and
\* then the lines
ApplyStat ==
    /\ fpc = "in"
    /\ fout' = body([op |-> fin.shape,
                     cmd |-> <<fin.shape, SP, "a", NL>>,
                     shape |-> fin.shape, after |-> "none", args |-> <<>>],
                    <<>>,
                    [send |-> "ok",
                     stream |-> <<"0", NL>>
                         \o Lines(Tokens(Len(NamesOf(fin.shape)), fin.first,
                                         fin.step),
                                  fin.cuts, 1),
                     end |-> "timeout"],
                    fin.k).out
    /\ fpc' = "out"
    /\ UNCHANGED <<fin, clientVars>>

NextStat == ApplyStat

SpecStat == InitStat /\ [][NextStat]_vars

(***************************************************************************)
(* The claims.                                                             *)
(***************************************************************************)
SockOpen == sock \in {"created", "connected"}

\* a public operation has returned or raised to its caller
OpEnded == pc = "ready" /\ call.op # "none"

\* the operation's own command went out in full
CommandSent == Len(wire) >= 2 /\ wire[2].sent = "all"

TransportFaults == {"socket.error", "RuntimeError"}

\* C1: when a public operation has returned normally, failed with a
\* server-reported error code, or failed with a transport fault after its
\* command was sent, the client's socket is closed.
C1_SessionReleasedOnEveryExit ==
    (/\ OpEnded
     /\ \/ result.kind = "return"
        \/ result.kind = "raise" /\ result.code < 0
        \/ result.kind = "raise" /\ result.error \in TransportFaults
               /\ CommandSent)
        => ~SockOpen

\* C2: a command other than the cookie command is handed to send only on a
\* socket on which the cookie command was sent first and was answered by
\* the response line 0.
C2_OperationOnlyAfterAuthentication ==
    \A i \in 1..Len(wire) :
        (wire[i].cmd[1] # "cookie" /\ wire[i].sent # "none")
            => /\ i > 1
               /\ wire[1].cmd[1] = "cookie"
               /\ wire[1].sent = "all"
               /\ rstrip(wire[1].line) = <<"0">>

C2_Witness ==
    /\ pc = "ready"
    /\ Len(wire) = 2
    /\ wire[2].cmd[1] = "rename"
    /\ wire[2].sent = "all"
    /\ result.kind = "return"

\* C3: a cookie authentication on an established connection that has
\* ended either succeeded or failed with NotAuthenticated, whatever the
\* server answered and whatever send and recv did.
C3_CookieFailureIsNotAuthenticated ==
    \A i \in 1..Len(attempts) :
        (/\ attempts[i].method = "cookie"
         /\ attempts[i].connected
         /\ attempts[i].outcome # "hang")
            => attempts[i].outcome \in {"ok", "NotAuthenticated"}

\* C4: construction attempts the methods in the order of the list, an
\* attempt that authenticates is the last one made, and its method is the
\* negotiated one.
C4_FirstAuthenticatingMethodWins ==
    /\ Len(attempts) <= Len(auth)
    /\ \A i \in 1..Len(attempts) :
        /\ attempts[i].method = auth[i]
        /\ attempts[i].outcome = "ok"
            => /\ i = Len(attempts)
               /\ pc = "constructed"
               /\ authentication = auth[i]
    /\ pc = "constructed"
        => /\ attempts # <<>>
           /\ attempts[Len(attempts)].outcome = "ok"

C4_Witness ==
    /\ pc = "constructed"
    /\ Len(auth) = 3
    /\ Len(attempts) = 2
    /\ attempts[1].outcome = "NotAuthenticated"
    /\ authentication = "cookie"

Unimplemented == {"hostname", "unix", "kerberos", "globus"}

\* C5: an attempt with an unimplemented method is the last attempt and
\* construction has failed, with NotImplementedError once the attempt's
\* connection was established; every attempt followed by another one ended
\* in NotAuthenticated.
C5_UnimplementedFailsFast ==
    /\ \A i \in 1..Len(attempts) :
        attempts[i].method \in Unimplemented
            => /\ i = Len(attempts)
               /\ pc \in {"failed", "deleted"}
               /\ result.kind = "raise"
               /\ attempts[i].connected
                    => result.error = "NotImplementedError"
    /\ \A i \in 1..(Len(attempts) - 1) :
        attempts[i].outcome = "NotAuthenticated"

C5_Witness ==
    /\ pc = "failed"
    /\ auth = <<"cookie", "kerberos", "cookie">>
    /\ Len(attempts) = 2
    /\ attempts[2].connected
    /\ result.error = "NotImplementedError"

\* C6: when construction has ended and every configured method was
\* attempted and ended in NotAuthenticated (also: the list is empty),
\* construction has failed with NotAuthenticated, the message names the
\* whole list, and no method is negotiated.
C6_NoMethodAuthenticates ==
    (/\ pc \in {"constructed", "failed"}
     /\ Len(attempts) = Len(auth)
     /\ \A i \in 1..Len(attempts) : attempts[i].outcome = "NotAuthenticated")
        => /\ pc = "failed"
           /\ result.kind = "raise"
           /\ result.error = "NotAuthenticated"
           /\ result.value = auth
           /\ authentication = "None"

C6_Witness ==
    /\ pc = "failed"
    /\ auth = <<"cookie", "cookie">>
    /\ Len(attempts) = 2
    /\ attempts[2].outcome = "NotAuthenticated"
    /\ result.error = "NotAuthenticated"

\* C7: once construction has ended, by success or by any failure, no
\* socket of the client is open.
C7_ProbeConnectionClosed ==
    pc \in {"constructed", "failed"} => ~SockOpen

\* the error kinds of the table of codes -1..-17
Taxonomy ==
    <<"NotAuthenticated", "NotAuthorized", "DoesntExist", "AlreadyExists",
      "TooBig", "NoSpace", "NoMemory", "InvalidRequest", "TooManyOpen",
      "Busy", "TryAgain", "BadFD", "IsDir", "NotDir", "NotEmpty",
      "CrossDeviceLink", "Offline">>

IsNegativeInteger(line) == PyInt(line).ok /\ PyInt(line).val < 0

\* C8: a response line that parses as a negative integer is raised as the
\* table's kind for -1..-17 and as UnknownError, carrying the code, for
\* every other negative value; every other line is returned, trimmed; no
\* returned line parses as a negative integer.
C8_ResponseClassification ==
    fpc = "out" =>
        /\ IsNegativeInteger(rstrip(fin))
            => /\ fout.kind = "raise"
               /\ fout.code = PyInt(rstrip(fin)).val
               /\ fout.error = IF 0 - fout.code \in 1..17
                               THEN Taxonomy[0 - fout.code]
                               ELSE "UnknownError"
        /\ ~IsNegativeInteger(rstrip(fin)) => fout = Returned(rstrip(fin))
        /\ fout.kind = "return" => ~IsNegativeInteger(fout.value)

C8_Witness ==
    /\ fpc = "out"
    /\ fin = <<"-", "1", "2", "7", NL>>
    /\ fout.error = "UnknownError"
    /\ fout.code = -127

FiveChars == {BS, SP, TAB, NL, CR}

\* the inverse of quoting: a backslash is dropped and the character after
\* it is kept
RECURSIVE Unquote(_)
Unquote(s) ==
    IF s = <<>> THEN <<>>
    ELSE IF Head(s) = BS /\ Len(s) >= 2
    THEN <<s[2]>> \o Unquote(SubSeq(s, 3, Len(s)))
    ELSE <<Head(s)>> \o Unquote(Tail(s))

\* every backslash of s escapes one of the five characters, and each of
\* the five characters occurs only behind such a backslash
RECURSIVE ExactlyEscaped(_)
ExactlyEscaped(s) ==
    IF s = <<>> THEN TRUE
    ELSE IF Head(s) = BS
    THEN Len(s) >= 2 /\ s[2] \in FiveChars
            /\ ExactlyEscaped(SubSeq(s, 3, Len(s)))
    ELSE Head(s) \notin FiveChars /\ ExactlyEscaped(Tail(s))

\* C9: quote puts one backslash in front of each of the five characters
\* and changes nothing else, and unquoting gives the original string back.
C9_QuoteRoundTrip ==
    fpc = "out" =>
        /\ ExactlyEscaped(fout)
        /\ Unquote(fout) = fin
        /\ Len(fout) =
               Len(fin) + Cardinality({i \in 1..Len(fin) : fin[i] \in FiveChars})

C9_Witness ==
    /\ fpc = "out"
    /\ fin = <<"a", CR, BS, NL>>
    /\ fout = <<"a", BS, CR, BS, BS, BS, NL>>

\* s holds no newline that is not behind an escaping backslash
RECURSIVE NoUnescapedNewline(_)
NoUnescapedNewline(s) ==
    IF s = <<>> THEN TRUE
    ELSE IF Head(s) = BS THEN NoUnescapedNewline(SubSeq(s, 3, Len(s)))
    ELSE Head(s) # NL /\ NoUnescapedNewline(Tail(s))

\* C10: every command line handed to send ends in a newline and holds no
\* other unescaped newline.
C10_NoEmbeddedNewline ==
    \A i \in 1..Len(wire) :
        /\ wire[i].cmd[Len(wire[i].cmd)] = NL
        /\ NoUnescapedNewline(SubSeq(wire[i].cmd, 1, Len(wire[i].cmd) - 1))

\* the i-th command of the log went out and a whole line came back
Answered(i) ==
    /\ i <= Len(wire)
    /\ wire[i].sent = "all"
    /\ wire[i].line # <<>>
    /\ wire[i].line[Len(wire[i].line)] = NL

AnswerCode(i) == PyInt(rstrip(wire[i].line))

SuccessAnswer(i) == Answered(i) /\ AnswerCode(i).ok /\ AnswerCode(i).val >= 0

\* C11: a block transfer that has returned received exactly as many
\* payload bytes as the response line announced, and what it returned
\* (get_job_attr) or wrote to the local file (getfile, which returns their
\* number) is those bytes.
C11_BlockTransferExact ==
    (OpEnded /\ call.shape \in {"fixed", "getfile"} /\ result.kind = "return")
        => /\ SuccessAnswer(2)
           /\ Len(wire[2].data) = AnswerCode(2).val
           /\ call.shape = "fixed" => result.value = wire[2].data
           /\ call.shape = "getfile"
                => /\ result.value = AnswerCode(2).val
                   /\ local_file = wire[2].data

\* C12: no operation blocks forever, and none ends in an error other than
\* a transport fault, when the peer closes the connection before the
\* response line or the payload is complete.  (recv returns zero bytes
\* only then; the call then never comes back, or __get_line_data ends in
\* IndexError.)
C12_ShortReadSurfaced ==
    call.op # "__init__"
        => /\ pc # "hung"
           /\ ~(result.kind = "raise" /\ result.error = "IndexError")

\* the mapping of the field names to the numbers the server sent
ExpectedStat(f) ==
    [name \in Range(NamesOf(f.shape)) |->
        f.first + f.step *
            ((CHOOSE i \in 1..Len(NamesOf(f.shape)) :
                  NamesOf(f.shape)[i] = name) - 1)]

\* C13: stat (lstat) on 13 integers and statfs on 7 return the mapping of
\* the field names, in order, to the integers, whether these come in one
\* line or in two to four, and however the transport chunks them.
C13_AccumulatedFields ==
    fpc = "out" => fout = Returned(ExpectedStat(fin))

C13_Witness ==
    /\ fpc = "out"
    /\ fin.shape = "stat"
    /\ fin.cuts = {2, 5, 9}
    /\ fin.k = 7
    /\ fout.kind = "return"
    /\ fout.value["rdevice"] = 7
    /\ fout.value["ctime"] = 13

\* C14: a recursive rmdir that has ended sent the rmall verb, once, and
\* returned if the server answered with a success code; or it failed
\* before its command, for the connection or the authentication.
C14_RecursiveRmdirSendsRmall ==
    (pc = "ready" /\ call.op = "rmdir" /\ call.shape = "none")
        => \/ /\ Len(wire) = 2
              /\ wire[2].cmd[1] = "rmall"
              /\ SuccessAnswer(2) => result.kind = "return"
           \/ /\ Len(wire) < 2
              /\ result.kind = "raise"
              /\ result.error \in TransportFaults \/ result.code < 0

\* C15: an rmall whose one command the server answered with a success
\* code has returned normally and its socket is closed.
C15_RmallReturnsAndReleases ==
    (pc = "ready" /\ call.op = "rmall" /\ SuccessAnswer(2))
        => /\ Len(wire) = 2
           /\ wire[2].cmd = call.cmd
           /\ result.kind = "return"
           /\ ~SockOpen

\* C16: every entry of the mapping getlongdir returns carries the 13 field
\* names, each with the number at its position of the entry's stat line
\* (the numbers of a stat line of the model's listings are consecutive).
C16_LongdirFields ==
    (OpEnded /\ call.op = "getlongdir" /\ result.kind = "return")
        => \A f \in DOMAIN result.value :
             /\ DOMAIN result.value[f] = Range(stat_names)
             /\ \A i \in 1..Len(stat_names) :
                    result.value[f][stat_names[i]] =
                        result.value[f][stat_names[1]] + i - 1

\* the last number of a command line
LastNumber(cmd) == PyInt(split(Tail(cmd))[Len(split(Tail(cmd)))]).val

RECURSIVE Flatten(_)
Flatten(chunks) ==
    IF chunks = <<>> THEN <<>> ELSE Head(chunks) \o Flatten(Tail(chunks))

\* C17: the length putfile announces is the size of the local file; when
\* it has returned, the chunks it wrote hold 1 to 1024 bytes each and
\* together are the file, and the value returned is the announced length;
\* nothing is written when the command fails.
C17_PutfileLengthExact ==
    call.op = "putfile"
        => /\ LastNumber(call.cmd) = Len(local_file)
           /\ (OpEnded /\ result.kind = "return")
                => /\ \A i \in 1..Len(written) :
                          Len(written[i]) \in 1..CHIRP_LINE_MAX
                   /\ bytes_in(written) = LastNumber(call.cmd)
                   /\ Flatten(written) = local_file
                   /\ result.value = LastNumber(call.cmd)
           /\ result.kind # "return" => written = <<>>

C17_Witness ==
    /\ OpEnded
    /\ call.op = "putfile"
    /\ result.kind = "return"
    /\ result.value = 2 * CHIRP_LINE_MAX + 1
    /\ Len(written) = 3
    /\ Len(written[3]) = 1

\* C18: an access call with a mode string of the letters f, r, w, x that
\* has ended after a successful authentication sent one access command,
\* returned if the answer was a success code and failed with
\* NotAuthorized if it was -2.
C18_AccessSendsCommand ==
    (/\ OpEnded
     /\ call.shape = "access"
     /\ Answered(1)
     /\ rstrip(wire[1].line) = <<"0">>)
        => /\ Len(wire) = 2
           /\ wire[2].cmd[1] = "access"
           /\ SuccessAnswer(2) => result.kind = "return"
           /\ (Answered(2) /\ AnswerCode(2).ok /\ AnswerCode(2).val = 0 - 2)
                => result.error = "NotAuthorized"

\* C19: a readlink whose command was answered with a length N and that
\* then received N bytes or more has ended, returning the first N of them.
C19_ReadlinkReturnsTarget ==
    (/\ call.op = "readlink"
     /\ pc \in {"ready", "hung"}
     /\ SuccessAnswer(2)
     /\ Len(wire[2].data) >= AnswerCode(2).val)
        => /\ pc = "ready"
           /\ result.kind = "return"
           /\ result.value = SubSeq(wire[2].data, 1, AnswerCode(2).val)

\* C20: an operation whose command the server answered with a negative
\* code has ended in the error of that code, and its command is the one
\* command sent since its connection was authenticated: nothing was sent
\* again and no other connection was opened.
C20_NoAutomaticRetry ==
    (/\ call.op \notin {"none", "__init__"}
     /\ Answered(2)
     /\ AnswerCode(2).ok
     /\ AnswerCode(2).val < 0)
        => /\ pc \in {"ready", "deleted"}
           /\ Len(wire) = 2
           /\ wire[2].cmd = call.cmd
           /\ written = <<>>
           /\ result.kind = "raise"
           /\ result.code = AnswerCode(2).val
           /\ result.error = IF 0 - result.code \in 1..17
                              THEN Taxonomy[0 - result.code]
                              ELSE "UnknownError"

C20_Witness ==
    /\ OpEnded
    /\ call.op = "putfile"
    /\ Len(wire) = 2
    /\ rstrip(wire[2].line) = <<"-", "1", "1">>
    /\ result.error = "TryAgain"
    /\ SockOpen

\* C21: an operation past the creation of its socket finds in
\* self.__socket the socket it created, and finds it open: no other
\* operation has closed or replaced it, and so each operation sends on,
\* reads from and closes its own socket only.
C21_OperationsOnOwnSockets ==
    \A t \in Threads :
        pc[t] \in {"settimeout", "connect", "auth_send", "auth_recv",
                   "cmd_send", "cmd_recv", "disconnect"}
            => sock = call[t].own /\ sock \in opened

\* a server that accepts the connection and answers every command with 0
HealthyExchange == [send |-> "ok", stream |-> <<"0", NL>>, end |-> "timeout"]

HealthyConnection == [conn |-> "ok", x |-> HealthyExchange]

\* the outcome c of a __connect: authenticated, nothing left unread
CleanSession(c) ==
    /\ c.out = NoResult
    /\ c.sock = "connected"
    /\ c.rx = <<>>
    /\ Len(c.wire) = 1
    /\ c.wire[1].line = <<"0", NL>>

\* C22: the operation that follows one that failed (by an error code of
\* the server, or by a transport fault after its command was sent)
\* connects anew: a healthy server authenticates it whatever the failed
\* operation left unread, its command goes out on the one open socket,
\* the newest, after the one cookie command of that socket was answered
\* with 0, and a command the healthy server answers with 0 returns.
C22_RecoveryOnNewConnection ==
    call.after = "failed"
        => /\ pc = "connect"
                => CleanSession(__connect("None", HealthyConnection))
           /\ pc = "exchange"
                => /\ sock = "connected"
                   /\ opened = {sockId}
                   /\ Len(wire) = 1
                   /\ wire[1].cmd[1] = "cookie"
                   /\ Answered(1)
                   /\ rstrip(wire[1].line) = <<"0">>
                   /\ (call.shape \in {"simple", "fixed"} /\ rx = <<>>)
                        => body(call, rx, HealthyExchange, 1).out.kind
                               = "return"
           /\ (/\ OpEnded
               /\ call.shape = "simple"
               /\ Len(wire) = 2
               /\ wire[1].line = <<"0", NL>>
               /\ wire[2].line = <<"0", NL>>)
                => result.kind = "return" /\ ~SockOpen

C22_Witness ==
    /\ OpEnded
    /\ call.after = "failed"
    /\ call.op = "unlink"
    /\ sockId = 3
    /\ Len(wire) = 2
    /\ wire[2].line = <<"0", NL>>
    /\ result.kind = "return"

\* C23: an operation's body starts only from its own __connect, which
\* created a socket then (the one open socket) and sent on it one command,
\* the cookie command of the negotiated method, answered with 0; the body
\* creates no socket and adds at most one command, never a second
\* authentication.
C23_FreshSessionStep ==
    /\ pc' = "exchange"
         => /\ pc = "connect"
            /\ sockId' = sockId + 1
            /\ sock' = "connected"
            /\ opened' = {sockId'}
            /\ authentication = "cookie"
            /\ Len(wire') = 1
            /\ wire'[1].cmd = <<"cookie", SP>> \o cookie \o <<NL>>
            /\ wire'[1].sent = "all"
            /\ rstrip(wire'[1].line) = <<"0">>
    /\ pc = "exchange"
         => /\ sockId' = sockId
            /\ SubSeq(wire', 1, 1) = wire
            /\ Len(wire') <= 2
            /\ Len(wire') = 2 => wire'[2].cmd[1] # "cookie"

C23_FreshSession == [][C23_FreshSessionStep]_vars

C23_Witness ==
    /\ OpEnded
    /\ call.op = "rename"
    /\ sockId = 3
    /\ Len(wire) = 2
    /\ wire[1].cmd[1] = "cookie"
    /\ wire[2].cmd[1] = "rename"
    /\ result.kind = "return"

\* an argument that is no integer: a float with a fraction, None, or a
\* string that is no decimal integer
NonInteger(a) ==
    \/ a.type \in {"float", "none"}
    \/ a.type = "str" /\ ~PyInt(a.text).ok

NumericVerbs == {"chmod", "chown", "lchown", "truncate", "utime"}

\* C24: a chmod, chown, lchown, truncate or utime given a numeric argument
\* that is no integer, once it has ended on an authenticated connection,
\* has raised ValueError or TypeError, and no command of its verb went to
\* the socket.
C24_NonIntegerRejected ==
    (/\ OpEnded
     /\ call.op \in NumericVerbs
     /\ \E i \in 1..Len(call.args) : NonInteger(call.args[i])
     /\ Answered(1)
     /\ rstrip(wire[1].line) = <<"0">>)
        => /\ result.kind = "raise"
           /\ result.error \in {"ValueError", "TypeError"}
           /\ \A i \in 1..Len(wire) : wire[i].cmd[1] # call.op

\* the names of a payload, each ended by a newline
RECURSIVE NamesIn(_, _, _)
NamesIn(payload, cur, acc) ==
    IF payload = <<>> THEN acc
    ELSE IF Head(payload) = NL
    THEN NamesIn(Tail(payload), <<>>, Append(acc, cur))
    ELSE NamesIn(Tail(payload), Append(cur, Head(payload)), acc)

\* C25: a getdir that has returned gives the names of the payload it
\* received, one element for each newline-terminated name, in order; the
\* empty sequence when the announced length is 0.
C25_GetdirNames ==
    (OpEnded /\ call.op = "getdir" /\ result.kind = "return")
        => /\ SuccessAnswer(2)
           /\ Len(wire[2].data) = AnswerCode(2).val
           /\ result.value = NamesIn(wire[2].data, <<>>, <<>>)

\* C26: a link that has ended sent one command, symlink when symbolic was
\* set and link otherwise, and returned if the server answered with a
\* success code; or it failed before its command, for the connection or
\* the authentication.
C26_LinkSendsItsVerb ==
    (pc = "ready" /\ call.op = "link")
        => \/ /\ Len(wire) = 2
              /\ wire[2].cmd[1] =
                     (IF call.shape = "none" THEN "symlink" ELSE "link")
              /\ SuccessAnswer(2) => result.kind = "return"
           \/ /\ Len(wire) < 2
              /\ result.kind = "raise"
              /\ result.error \in TransportFaults \/ result.code < 0

\* C27: a socket carries at most two commands, the authentication and one
\* of an operation, and the second was handed to send only after the
\* response line of the first had been read through its terminator.
C27_HalfDuplex ==
    /\ Len(wire) <= 2
    /\ \A i \in 2..Len(wire) :
          /\ wire[i - 1].cmd[1] = "cookie"
          /\ wire[i].cmd[1] # "cookie"
          /\ wire[i].sent # "none" => Answered(i - 1)

C27_Witness ==
    /\ OpEnded
    /\ Len(wire) = 2
    /\ wire[1].line = <<"0", CR, NL>>
    /\ wire[2].sent = "all"
    /\ wire[2].cmd[1] = "set_job_attr"

\* the position of the first newline of s, 0 if it has none
FirstNL(s) ==
    IF \E i \in 1..Len(s) : s[i] = NL
    THEN CHOOSE i \in 1..Len(s) : s[i] = NL /\ \A j \in 1..(i - 1) : s[j] # NL
    ELSE 0

\* C28: reading a response line takes from the socket the bytes up to and
\* including the first newline and leaves every byte after it unread, in
\* order; whatever the outcome, the bytes read and the bytes left are
\* together the bytes delivered.
C28_LineConsumedExactly ==
    fpc = "out"
        => /\ fout.line \o fout.rest = fin.stream
           /\ FirstNL(fin.stream) \in 1..CHIRP_LINE_MAX
                => /\ fout.line = SubSeq(fin.stream, 1, FirstNL(fin.stream))
                   /\ fout.rest = SubSeq(fin.stream, FirstNL(fin.stream) + 1,
                                         Len(fin.stream))
                   /\ fout.out.kind = "return"
                        => fout.out.value = rstrip(fout.line)

C28_Witness ==
    /\ fpc = "out"
    /\ fin.stream = <<"0", NL, "h", NL>>
    /\ fout.line = <<"0", NL>>
    /\ fout.rest = <<"h", NL>>
    /\ fout.out = Returned(<<"0">>)

\* C29: a line of at most CHIRP_LINE_MAX bytes, terminator included, is
\* accepted and returned without its trailing whitespace; when the first
\* CHIRP_LINE_MAX bytes hold no newline, the byte after them ends the read
\* in EnvironmentError; never more than CHIRP_LINE_MAX + 1 bytes are read.
C29_LineLengthLimit ==
    fpc = "out"
        => /\ Len(fout.line) <= CHIRP_LINE_MAX + 1
           /\ FirstNL(fin.stream) \in 1..CHIRP_LINE_MAX
                => /\ Len(fout.line) = FirstNL(fin.stream)
                   /\ ~PyInt(rstrip(fout.line)).ok
                        => fout.out = Returned(rstrip(fout.line))
           /\ (/\ FirstNL(fin.stream) \notin 1..CHIRP_LINE_MAX
               /\ Len(fin.stream) > CHIRP_LINE_MAX)
                => /\ fout.out = Raised("EnvironmentError")
                   /\ Len(fout.line) = CHIRP_LINE_MAX + 1

C29_Witness ==
    /\ fpc = "out"
    /\ FirstNL(fin.stream) = CHIRP_LINE_MAX + 1
    /\ fout.out = Raised("EnvironmentError")
    /\ Len(fout.line) = CHIRP_LINE_MAX + 1
    /\ fout.rest = <<"h", NL>>

\* C30: at most one socket of the client is open at any time, and it is
\* the one created last: a socket left open is closed before the next is
\* created.
C30_OneOpenSocket ==
    /\ Cardinality(opened) <= 1
    /\ opened \subseteq {sockId}
    /\ SockOpen <=> opened = {sockId}

C30_Witness ==
    /\ pc = "exchange"
    /\ call.after = "failed"
    /\ sockId = 3
    /\ opened = {3}

====
